---- MODULE Spec2Model ----
(***************************************************************************)
(* Model of lib/hexapod.js: the Hexapod command sequencer (cmdStack,        *)
(* robotState, currentPacket, the duration timers armed by processCmd),     *)
(* the Packet constructor and its byte layout, the TCP streaming interval   *)
(* started by connect() and the HTTP one-shot sender.                       *)
(*                                                                         *)
(* JavaScript numbers that may be fractional (seconds, cycles) are held as  *)
(* integers in units of 1/Scale, so 3.25 s is 3.25 * Scale.  Wall-clock     *)
(* time is abstracted: a timer that has been armed may fire at any later    *)
(* step.                                                                    *)
(***************************************************************************)
EXTENDS Integers, Sequences, FiniteSets, TLC

----------------------------------------------------------------------------
(* Bounds of the model *)

\* total number of calls of the public command methods in one behaviour
MaxPush == 2

\* the same bound for the behaviours of command calls and timer expiries only
MaxSeqPush == 3

\* the same bound for the behaviours of all operations with few command calls
MaxConnPush == 1

\* sockets whose 'connect' event is outstanding at one time
MaxPending == 2

\* stream intervals left running with their handle overwritten
MaxOrphans == 1

\* fixed-point denominator: divisible by 360 (turn arithmetic) and by 50
\* (cycles to seconds), so every duration the model computes is exact
Scale == 360 * 5

Num(n) == n * Scale

\* arguments the callers pass
Distances == {-1, 0, 1}
Angles == {-90, 90}
TiltSeconds == {1}
RestSeconds == {0, 1}

----------------------------------------------------------------------------
(* Hexapod constants *)

ROTATION_TIME == 13
MAX_SPEED == 13

\* this.intervalSetter is set to undefined by the constructor and assigned
\* nowhere else, so the branch of the timer callback that tests it is dead
intervalSetter == FALSE

----------------------------------------------------------------------------
(* Packet *)

DefaultSliders == <<50, 25, 0, 0, 0, 0, 0, 0, 0>>

defaults ==
  [power |-> 0, angle |-> 0, rotation |-> 0, staticTilt |-> 0,
   movingTilt |-> 0, onOff |-> 1, accX |-> 0, accY |-> 0,
   slidersArray |-> DefaultSliders, duration |-> 0]

\* Packet taking an empty slidersArray as given
Packet_KeepEmpty(parameters) ==
  [p \in DOMAIN defaults |->
     IF p \in DOMAIN parameters
     THEN IF p = "slidersArray" /\ Len(parameters[p]) # 9
             /\ Len(parameters[p]) # 0
          THEN defaults.slidersArray
          ELSE parameters[p]
     ELSE defaults[p]]

\* new Packet(parameters); parameters is a record with some of the fields,
\* <<>> stands for a call without parameters
Packet(parameters) ==
  [p \in DOMAIN defaults |->
     IF p \in DOMAIN parameters
     THEN IF p = "slidersArray" /\ Len(parameters[p]) # 9
          THEN defaults.slidersArray
          ELSE parameters[p]
     ELSE defaults[p]]

\* truncation toward zero of n / d  (d > 0)
TruncDiv(n, d) == IF n >= 0 THEN n \div d ELSE -((-n) \div d)

\* JavaScript remainder n % d (sign of the dividend)
JsRem(n, d) == n - d * TruncDiv(n, d)

\* storing a number into a Uint8Array element: truncate, then modulo 2^8
ToUint8(n) == n % 256

\* getBuffer with the two bytes of duration in little-endian order
getBuffer_LittleEndian(packet) ==
  <<80, 75, 84,
    ToUint8(packet.power),
    ToUint8(TruncDiv(packet.angle, 2)),
    ToUint8(packet.rotation),
    ToUint8(packet.staticTilt),
    ToUint8(packet.movingTilt),
    ToUint8(packet.onOff),
    ToUint8(packet.accX),
    ToUint8(packet.accY)>>
  \o [i \in 1..9 |-> ToUint8(packet.slidersArray[i])]
  \o <<ToUint8(TruncDiv(JsRem(packet.duration, 256 * Scale), Scale)),
       ToUint8(TruncDiv(packet.duration, 256 * Scale))>>

\* Packet.prototype.getBuffer: the 22 bytes written to the socket
getBuffer(packet) ==
  <<80, 75, 84,
    ToUint8(packet.power),
    ToUint8(TruncDiv(packet.angle, 2)),
    ToUint8(packet.rotation),
    ToUint8(packet.staticTilt),
    ToUint8(packet.movingTilt),
    ToUint8(packet.onOff),
    ToUint8(packet.accX),
    ToUint8(packet.accY)>>
  \o [i \in 1..9 |-> ToUint8(packet.slidersArray[i])]
  \o <<ToUint8(TruncDiv(packet.duration, 256 * Scale)),
       ToUint8(TruncDiv(JsRem(packet.duration, 256 * Scale), Scale))>>

\* packets handed to sendCustomPacket
CustomPackets ==
  { Packet([power |-> 50, angle |-> 90, slidersArray |-> <<1, 2, 3>>,
            duration |-> Num(100)]) }

----------------------------------------------------------------------------
(* Commands and their translation (Hexapod.prototype.CmdEnum)               *)
(* Every handler yields the packet it stores in hexapod.currentPacket and   *)
(* the duration in seconds it returns.                                      *)

Cmd(name, arg) == [name |-> name, args |-> <<arg>>]

CmdEnum_goForward(cmd) ==
  LET duration == MAX_SPEED * Num(cmd.args[1])
  IN  [currentPacket |-> Packet([power |-> 100, duration |-> duration * 50]),
       duration |-> duration]

CmdEnum_goBack(cmd) ==
  LET duration == MAX_SPEED * Num(cmd.args[1])
  IN  [currentPacket |->
         Packet([power |-> 100, angle |-> 180, duration |-> duration * 50]),
       duration |-> duration]

\* turnLeft with the sign of turnRight
CmdEnum_turnLeft_Clockwise(cmd) ==
  LET duration == (ROTATION_TIME * Num(cmd.args[1])) \div 360
  IN  [currentPacket |-> Packet([rotation |-> 100, duration |-> duration * 50]),
       duration |-> duration]

CmdEnum_turnLeft(cmd) ==
  LET duration == (ROTATION_TIME * Num(cmd.args[1])) \div 360
  IN  [currentPacket |-> Packet([rotation |-> -100, duration |-> duration * 50]),
       duration |-> duration]

CmdEnum_turnRight(cmd) ==
  LET duration == (ROTATION_TIME * Num(cmd.args[1])) \div 360
  IN  [currentPacket |-> Packet([rotation |-> 100, duration |-> duration * 50]),
       duration |-> duration]

CmdEnum_tiltForward(cmd) ==
  [currentPacket |->
     Packet([staticTilt |-> 1, accX |-> -30, duration |-> Num(cmd.args[1]) * 50]),
   duration |-> Num(cmd.args[1])]

\* tiltBack with the duration field in seconds
CmdEnum_tiltBack_Seconds(cmd) ==
  [currentPacket |->
     Packet([staticTilt |-> 1, accX |-> 30, duration |-> Num(cmd.args[1])]),
   duration |-> Num(cmd.args[1])]

CmdEnum_tiltBack(cmd) ==
  [currentPacket |->
     Packet([staticTilt |-> 1, accX |-> 30, duration |-> Num(cmd.args[1]) * 50]),
   duration |-> Num(cmd.args[1])]

CmdEnum_tiltLeft(cmd) ==
  [currentPacket |->
     Packet([staticTilt |-> 1, accY |-> -30, duration |-> Num(cmd.args[1]) * 50]),
   duration |-> Num(cmd.args[1])]

CmdEnum_tiltRight(cmd) ==
  [currentPacket |->
     Packet([staticTilt |-> 1, accY |-> 30, duration |-> Num(cmd.args[1]) * 50]),
   duration |-> Num(cmd.args[1])]

CmdEnum_sendCustomPacket(cmd) ==
  [currentPacket |-> cmd.args[1],
   duration |-> IF cmd.args[1].duration > 0
                THEN cmd.args[1].duration \div 50
                ELSE 0]

CmdEnum_rest(cmd) ==
  IF cmd.args[1] > 0
  THEN [currentPacket |-> Packet([duration |-> Num(cmd.args[1]) * 50]),
        duration |-> Num(cmd.args[1])]
  ELSE [currentPacket |-> Packet(<<>>), duration |-> 0]

\* self.CmdEnum[cmd.name](self, cmd)
CmdEnum(cmd) ==
  CASE cmd.name = "goForward" -> CmdEnum_goForward(cmd)
    [] cmd.name = "goBack" -> CmdEnum_goBack(cmd)
    [] cmd.name = "turnLeft" -> CmdEnum_turnLeft(cmd)
    [] cmd.name = "turnRight" -> CmdEnum_turnRight(cmd)
    [] cmd.name = "tiltForward" -> CmdEnum_tiltForward(cmd)
    [] cmd.name = "tiltBack" -> CmdEnum_tiltBack(cmd)
    [] cmd.name = "tiltLeft" -> CmdEnum_tiltLeft(cmd)
    [] cmd.name = "tiltRight" -> CmdEnum_tiltRight(cmd)
    [] cmd.name = "sendCustomPacket" -> CmdEnum_sendCustomPacket(cmd)
    [] cmd.name = "rest" -> CmdEnum_rest(cmd)

----------------------------------------------------------------------------
(* State *)

VARIABLES
  connected,        \* this.connected
  robotState,       \* this.robotState: "idle" or "running"
  cmdStack,         \* this.cmdStack: the queue of commands
  currentPacket,    \* this.currentPacket
  socket,           \* this.socket: "none" (undefined), "open" or "ended"
  intervalSender,   \* TRUE while the interval this.intervalSender names runs
  timers,           \* pending setTimeout callbacks armed by processCmd;
                    \* a timer is named by the index of its command in installed
  orphanIntervals,  \* running intervals whose handle was overwritten
  pendingConnects,  \* sockets whose 'connect' event has not been delivered
  lastWritten,      \* bytes of the last socket.write on a socket not ended
  httpSent,         \* packets handed to sendPacketHTTP, in order
  enqueued,         \* commands pushed on cmdStack, in order
  installed,        \* commands given to processCmd, in order
  staleTimers,      \* timers that were pending when disconnect() was called
  disconnected,     \* TRUE once disconnect() has been called
  lastOp            \* the operation that made the last step

progVars == <<connected, robotState, cmdStack, currentPacket, socket,
              intervalSender, timers>>

vars == <<connected, robotState, cmdStack, currentPacket, socket,
          intervalSender, timers, orphanIntervals, pendingConnects,
          lastWritten, httpSent, enqueued, installed, staleTimers,
          disconnected, lastOp>>

Op(name, arg, threw) == [op |-> name, arg |-> arg, threw |-> threw]

\* the constructor Hexapod(ip, port)
Init ==
  /\ connected = FALSE
  /\ robotState = "idle"
  /\ cmdStack = <<>>
  /\ currentPacket = Packet(<<>>)
  /\ socket = "none"
  /\ intervalSender = FALSE
  /\ timers = {}
  /\ orphanIntervals = 0
  /\ pendingConnects = 0
  /\ lastWritten = <<>>
  /\ httpSent = <<>>
  /\ enqueued = <<>>
  /\ installed = <<>>
  /\ staleTimers = {}
  /\ disconnected = FALSE
  /\ lastOp = Op("new", 0, FALSE)

----------------------------------------------------------------------------
(* The sequencer *)

\* processCmd sending its packet over HTTP twice
processCmd_SendTwice(cmd, pending) ==
  LET r == CmdEnum(cmd)
  IN  /\ currentPacket' = r.currentPacket
      /\ timers' = IF r.duration >= 0
                   THEN pending \cup {Len(installed) + 1}
                   ELSE pending
      /\ httpSent' = httpSent \o <<r.currentPacket, r.currentPacket>>
      /\ installed' = Append(installed, cmd)

\* Hexapod.prototype.processCmd(cmd), called with the timers in pending still
\* armed: the handler sets currentPacket, a timer is armed when the returned
\* duration is >= 0, and the packet is sent over HTTP
processCmd(cmd, pending) ==
  LET r == CmdEnum(cmd)
  IN  /\ currentPacket' = r.currentPacket
      /\ timers' = IF r.duration >= 0
                   THEN pending \cup {Len(installed) + 1}
                   ELSE pending
      /\ httpSent' = Append(httpSent, r.currentPacket)
      /\ installed' = Append(installed, cmd)

\* runStack without the test of robotState
runStack_AlwaysRun(stack) ==
  IF Len(stack) > 0
  THEN /\ robotState' = "running"
       /\ processCmd(stack[1], timers)
       /\ cmdStack' = Tail(stack)
  ELSE /\ cmdStack' = stack
       /\ UNCHANGED <<robotState, currentPacket, timers, httpSent, installed>>

\* Hexapod.prototype.runStack, run on the queue stack
runStack(stack) ==
  IF robotState = "idle" /\ Len(stack) > 0
  THEN /\ robotState' = "running"
       /\ processCmd(stack[1], timers)
       /\ cmdStack' = Tail(stack)
  ELSE /\ cmdStack' = stack
       /\ UNCHANGED <<robotState, currentPacket, timers, httpSent, installed>>

\* pushCmd without the call of runStack
pushCmd_NoRun(cmd) ==
  /\ enqueued' = Append(enqueued, cmd)
  /\ cmdStack' = Append(cmdStack, cmd)
  /\ UNCHANGED <<robotState, currentPacket, timers, httpSent, installed>>
  /\ UNCHANGED <<connected, socket, intervalSender, orphanIntervals,
                 pendingConnects, lastWritten, staleTimers,
                 disconnected>>

\* Hexapod.prototype.pushCmd
pushCmd(cmd) ==
  /\ enqueued' = Append(enqueued, cmd)
  /\ runStack(Append(cmdStack, cmd))
  /\ UNCHANGED <<connected, socket, intervalSender, orphanIntervals,
                 pendingConnects, lastWritten, staleTimers,
                 disconnected>>

\* a public method called with an argument it rejects: a warning, no effect
Rejected ==
  UNCHANGED <<connected, robotState, cmdStack, currentPacket, socket,
              intervalSender, timers, orphanIntervals, pendingConnects,
              lastWritten, httpSent, enqueued, installed,
              staleTimers, disconnected>>

\* goForward without the test of its argument
goForward_NoGuard(distance) ==
  /\ lastOp' = Op("goForward", distance, FALSE)
  /\ pushCmd(Cmd("goForward", distance))

goForward(distance) ==
  /\ lastOp' = Op("goForward", distance, FALSE)
  /\ IF distance > 0 THEN pushCmd(Cmd("goForward", distance)) ELSE Rejected

goBack(distance) ==
  /\ lastOp' = Op("goBack", distance, FALSE)
  /\ IF distance > 0 THEN pushCmd(Cmd("goBack", distance)) ELSE Rejected

turnLeft(angle) ==
  /\ lastOp' = Op("turnLeft", angle, FALSE)
  /\ pushCmd(Cmd("turnLeft", angle))

turnRight(angle) ==
  /\ lastOp' = Op("turnRight", angle, FALSE)
  /\ pushCmd(Cmd("turnRight", angle))

rest(duration) ==
  /\ lastOp' = Op("rest", duration, FALSE)
  /\ IF duration # 0
     THEN pushCmd(Cmd("rest", duration))
     ELSE pushCmd(Cmd("rest", 0))

tiltForward(duration) ==
  /\ lastOp' = Op("tiltForward", duration, FALSE)
  /\ pushCmd(Cmd("tiltForward", duration))

tiltBack(duration) ==
  /\ lastOp' = Op("tiltBack", duration, FALSE)
  /\ pushCmd(Cmd("tiltBack", duration))

tiltLeft(duration) ==
  /\ lastOp' = Op("tiltLeft", duration, FALSE)
  /\ pushCmd(Cmd("tiltLeft", duration))

tiltRight(duration) ==
  /\ lastOp' = Op("tiltRight", duration, FALSE)
  /\ pushCmd(Cmd("tiltRight", duration))

sendCustomPacket(packet) ==
  /\ lastOp' = Op("sendCustomPacket", 0, FALSE)
  /\ pushCmd(Cmd("sendCustomPacket", packet))

\* the callback taking the command pushed last instead of the oldest one
TimerFire_Lifo(t) ==
  /\ t \in timers
  /\ ~intervalSetter
  /\ lastOp' = Op("timeout", t, FALSE)
  /\ IF Len(cmdStack) = 0
     THEN /\ currentPacket' = Packet(<<>>)
          /\ httpSent' = Append(httpSent, Packet(<<>>))
          /\ robotState' = "idle"
          /\ timers' = timers \ {t}
          /\ UNCHANGED <<cmdStack, installed>>
     ELSE /\ processCmd(cmdStack[Len(cmdStack)], timers \ {t})
          /\ cmdStack' = SubSeq(cmdStack, 1, Len(cmdStack) - 1)
          /\ UNCHANGED robotState
  /\ UNCHANGED <<connected, socket, intervalSender, orphanIntervals,
                 pendingConnects, lastWritten, enqueued, staleTimers,
                 disconnected>>

\* the callback leaving the last command's packet installed at the end
TimerFire_KeepPacket(t) ==
  /\ t \in timers
  /\ ~intervalSetter
  /\ lastOp' = Op("timeout", t, FALSE)
  /\ IF Len(cmdStack) = 0
     THEN /\ httpSent' = Append(httpSent, currentPacket)
          /\ robotState' = "idle"
          /\ timers' = timers \ {t}
          /\ UNCHANGED <<currentPacket, cmdStack, installed>>
     ELSE /\ processCmd(cmdStack[1], timers \ {t})
          /\ cmdStack' = Tail(cmdStack)
          /\ UNCHANGED robotState
  /\ UNCHANGED <<connected, socket, intervalSender, orphanIntervals,
                 pendingConnects, lastWritten, enqueued, staleTimers,
                 disconnected>>

\* the callback processCmd hands to setTimeout, for the pending timer t
TimerFire(t) ==
  /\ t \in timers
  /\ ~intervalSetter
  /\ lastOp' = Op("timeout", t, FALSE)
  /\ IF Len(cmdStack) = 0
     THEN /\ currentPacket' = Packet(<<>>)
          /\ httpSent' = Append(httpSent, Packet(<<>>))
          /\ robotState' = "idle"
          /\ timers' = timers \ {t}
          /\ UNCHANGED <<cmdStack, installed>>
     ELSE /\ processCmd(cmdStack[1], timers \ {t})
          /\ cmdStack' = Tail(cmdStack)
          /\ UNCHANGED robotState
  /\ UNCHANGED <<connected, socket, intervalSender, orphanIntervals,
                 pendingConnects, lastWritten, enqueued, staleTimers,
                 disconnected>>

----------------------------------------------------------------------------
(* The persistent connection *)

\* Hexapod.prototype.connect
connect ==
  /\ pendingConnects < MaxPending
  /\ intervalSender => orphanIntervals < MaxOrphans
  /\ lastOp' = Op("connect", 0, FALSE)
  /\ IF ~connected
     THEN /\ socket' = "open"
          /\ pendingConnects' = pendingConnects + 1
          /\ orphanIntervals' =
               IF intervalSender THEN orphanIntervals + 1 ELSE orphanIntervals
          /\ intervalSender' = TRUE
     ELSE UNCHANGED <<socket, pendingConnects, orphanIntervals, intervalSender>>
  /\ UNCHANGED <<connected, robotState, cmdStack, currentPacket, timers,
                 lastWritten, httpSent, enqueued, installed, staleTimers,
                 disconnected>>

\* the socket's 'connect' listener
onConnect ==
  /\ pendingConnects > 0
  /\ pendingConnects' = pendingConnects - 1
  /\ connected' = TRUE
  /\ robotState' = "running"
  /\ lastOp' = Op("onConnect", 0, FALSE)
  /\ UNCHANGED <<cmdStack, currentPacket, socket, intervalSender, timers,
                 orphanIntervals, lastWritten, httpSent, enqueued,
                 installed, staleTimers, disconnected>>

\* the socket's 'error' listener: the connection attempt failed, logged only
connectError ==
  /\ pendingConnects > 0
  /\ pendingConnects' = pendingConnects - 1
  /\ lastOp' = Op("connectError", 0, FALSE)
  /\ UNCHANGED <<connected, robotState, cmdStack, currentPacket, socket,
                 intervalSender, timers, orphanIntervals,
                 lastWritten, httpSent, enqueued, installed, staleTimers,
                 disconnected>>

\* socket.write(buffer) on this.socket: a write after end() is dropped
socketWrite(buffer) == IF socket = "open" THEN buffer ELSE lastWritten

\* the callback of the interval started by connect()
streamTick ==
  /\ intervalSender \/ orphanIntervals > 0
  /\ lastWritten' = socketWrite(getBuffer(currentPacket))
  /\ lastOp' = Op("streamTick", 0, FALSE)
  /\ UNCHANGED <<connected, robotState, cmdStack, currentPacket, socket,
                 intervalSender, timers, orphanIntervals, pendingConnects,
                 httpSent, enqueued, installed, staleTimers,
                 disconnected>>

\* disconnect leaving the queue as it is
disconnect_KeepQueue ==
  /\ intervalSender' = FALSE
  /\ currentPacket' = Packet(<<>>)
  /\ staleTimers' = staleTimers \cup timers
  /\ disconnected' = TRUE
  /\ IF socket = "none"
     THEN /\ lastOp' = Op("disconnect", 0, TRUE)
          /\ UNCHANGED <<lastWritten, socket, connected, robotState, cmdStack>>
     ELSE /\ lastOp' = Op("disconnect", 0, FALSE)
          /\ lastWritten' = socketWrite(getBuffer(Packet(<<>>)))
          /\ socket' = "ended"
          /\ connected' = FALSE
          /\ robotState' = "idle"
          /\ cmdStack' = cmdStack
  /\ UNCHANGED <<timers, orphanIntervals, pendingConnects,
                 httpSent, enqueued, installed>>

\* disconnect leaving currentPacket as it is
disconnect_KeepPacket ==
  /\ intervalSender' = FALSE
  /\ currentPacket' = currentPacket
  /\ staleTimers' = staleTimers \cup timers
  /\ disconnected' = TRUE
  /\ IF socket = "none"
     THEN /\ lastOp' = Op("disconnect", 0, TRUE)
          /\ UNCHANGED <<lastWritten, socket, connected, robotState, cmdStack>>
     ELSE /\ lastOp' = Op("disconnect", 0, FALSE)
          /\ lastWritten' = socketWrite(getBuffer(Packet(<<>>)))
          /\ socket' = "ended"
          /\ connected' = FALSE
          /\ robotState' = "idle"
          /\ cmdStack' = <<>>
  /\ UNCHANGED <<timers, orphanIntervals, pendingConnects,
                 httpSent, enqueued, installed>>

\* Hexapod.prototype.disconnect; with this.socket undefined the call throws
\* a TypeError at this.socket.write, after currentPacket has been reset
disconnect ==
  /\ intervalSender' = FALSE
  /\ currentPacket' = Packet(<<>>)
  /\ staleTimers' = staleTimers \cup timers
  /\ disconnected' = TRUE
  /\ IF socket = "none"
     THEN /\ lastOp' = Op("disconnect", 0, TRUE)
          /\ UNCHANGED <<lastWritten, socket, connected, robotState, cmdStack>>
     ELSE /\ lastOp' = Op("disconnect", 0, FALSE)
          /\ lastWritten' = socketWrite(getBuffer(Packet(<<>>)))
          /\ socket' = "ended"
          /\ connected' = FALSE
          /\ robotState' = "idle"
          /\ cmdStack' = <<>>
  /\ UNCHANGED <<timers, orphanIntervals, pendingConnects,
                 httpSent, enqueued, installed>>

----------------------------------------------------------------------------

Next ==
  \/ Len(enqueued) < MaxPush /\ \E d \in Distances : goForward(d)
  \/ Len(enqueued) < MaxPush /\ \E d \in Distances : goBack(d)
  \/ Len(enqueued) < MaxPush /\ \E a \in Angles : turnLeft(a)
  \/ Len(enqueued) < MaxPush /\ \E a \in Angles : turnRight(a)
  \/ Len(enqueued) < MaxPush /\ \E d \in RestSeconds : rest(d)
  \/ Len(enqueued) < MaxPush /\ \E d \in TiltSeconds : tiltForward(d)
  \/ Len(enqueued) < MaxPush /\ \E d \in TiltSeconds : tiltBack(d)
  \/ Len(enqueued) < MaxPush /\ \E d \in TiltSeconds : tiltLeft(d)
  \/ Len(enqueued) < MaxPush /\ \E d \in TiltSeconds : tiltRight(d)
  \/ Len(enqueued) < MaxPush /\ \E p \in CustomPackets : sendCustomPacket(p)
  \/ \E t \in timers : TimerFire(t)
  \/ connect
  \/ onConnect
  \/ connectError
  \/ streamTick
  \/ disconnect

Spec == Init /\ [][Next]_vars

\* the behaviours of all operations with at most MaxConnPush command calls
NextConn ==
  \/ Len(enqueued) < MaxConnPush /\ \E d \in Distances : goForward(d)
  \/ Len(enqueued) < MaxConnPush /\ \E d \in Distances : goBack(d)
  \/ Len(enqueued) < MaxConnPush /\ \E a \in Angles : turnLeft(a)
  \/ Len(enqueued) < MaxConnPush /\ \E a \in Angles : turnRight(a)
  \/ Len(enqueued) < MaxConnPush /\ \E d \in RestSeconds : rest(d)
  \/ Len(enqueued) < MaxConnPush /\ \E d \in TiltSeconds : tiltForward(d)
  \/ Len(enqueued) < MaxConnPush /\ \E d \in TiltSeconds : tiltBack(d)
  \/ Len(enqueued) < MaxConnPush /\ \E d \in TiltSeconds : tiltLeft(d)
  \/ Len(enqueued) < MaxConnPush /\ \E d \in TiltSeconds : tiltRight(d)
  \/ Len(enqueued) < MaxConnPush /\ \E p \in CustomPackets : sendCustomPacket(p)
  \/ \E t \in timers : TimerFire(t)
  \/ connect
  \/ onConnect
  \/ connectError
  \/ streamTick
  \/ disconnect

SpecConn == Init /\ [][NextConn]_vars

\* the behaviours made of command calls and timer expiries only
NextSeq ==
  \/ Len(enqueued) < MaxSeqPush /\ \E d \in Distances : goForward(d)
  \/ Len(enqueued) < MaxSeqPush /\ \E d \in Distances : goBack(d)
  \/ Len(enqueued) < MaxSeqPush /\ \E a \in Angles : turnLeft(a)
  \/ Len(enqueued) < MaxSeqPush /\ \E a \in Angles : turnRight(a)
  \/ Len(enqueued) < MaxSeqPush /\ \E d \in RestSeconds : rest(d)
  \/ Len(enqueued) < MaxSeqPush /\ \E d \in TiltSeconds : tiltForward(d)
  \/ Len(enqueued) < MaxSeqPush /\ \E d \in TiltSeconds : tiltBack(d)
  \/ Len(enqueued) < MaxSeqPush /\ \E d \in TiltSeconds : tiltLeft(d)
  \/ Len(enqueued) < MaxSeqPush /\ \E d \in TiltSeconds : tiltRight(d)
  \/ Len(enqueued) < MaxSeqPush /\ \E p \in CustomPackets : sendCustomPacket(p)
  \/ \E t \in timers : TimerFire(t)

SpecSeq == Init /\ [][NextSeq]_vars

----------------------------------------------------------------------------
(* The handlers of CmdEnum called on their own *)

\* the largest argument a handler is called with
MaxArg == 9

CmdArgs == -2..MaxArg

\* packets a sendCustomPacket command carries
CustomArgs ==
  CustomPackets \cup
  { Packet([accY |-> 7, duration |-> Num(c)]) : c \in {-50, 0, 1, 50, 325} }

\* CmdEnum[cmd.name](hexapod, cmd) on a Hexapod: the handler stores its packet
\* in hexapod.currentPacket; installed keeps the command it was given and
\* lastOp.arg the duration it returned
callCmdEnum(cmd) ==
  /\ LET r == CmdEnum(cmd)
     IN  /\ currentPacket' = r.currentPacket
         /\ lastOp' = Op("CmdEnum", r.duration, FALSE)
  /\ installed' = <<cmd>>
  /\ UNCHANGED <<connected, robotState, cmdStack, socket, intervalSender,
                 timers, orphanIntervals, pendingConnects, lastWritten,
                 httpSent, enqueued, staleTimers, disconnected>>

NextCmdEnum ==
  \/ \E a \in CmdArgs : callCmdEnum(Cmd("goForward", a))
  \/ \E a \in CmdArgs : callCmdEnum(Cmd("goBack", a))
  \/ \E a \in CmdArgs : callCmdEnum(Cmd("turnLeft", 45 * a))
  \/ \E a \in CmdArgs : callCmdEnum(Cmd("turnRight", 45 * a))
  \/ \E a \in CmdArgs : callCmdEnum(Cmd("tiltForward", a))
  \/ \E a \in CmdArgs : callCmdEnum(Cmd("tiltBack", a))
  \/ \E a \in CmdArgs : callCmdEnum(Cmd("tiltLeft", a))
  \/ \E a \in CmdArgs : callCmdEnum(Cmd("tiltRight", a))
  \/ \E a \in CmdArgs : callCmdEnum(Cmd("rest", a))
  \/ \E p \in CustomArgs : callCmdEnum(Cmd("sendCustomPacket", p))

SpecCmdEnum == Init /\ [][NextCmdEnum]_vars

\* the behaviours of command calls and timer expiries in which a timer that
\* stays armed does fire: setTimeout runs its callback once the delay is over
SpecSeqFair == SpecSeq /\ WF_vars(\E t \in timers : TimerFire(t))

----------------------------------------------------------------------------
(* A Packet built and serialized on its own *)

PowerArgs == {0, 100, 300}
AngleArgs == {-180, -179, -1, 0, 1, 91, 180, 270}
RotationArgs == {-100, 100}
FlagArgs == {0, 1}
AccArgs == {-40, 40}
SliderArgs ==
  { <<>>, <<1, 2, 3>>, DefaultSliders, <<255, 0, 128, 1, 2, 3, 4, 5, 6>>,
    <<1, 2, 3, 4, 5, 6, 7, 8, 9, 10>> }
DurationArgs == {0, 1, 255, 256, 65535, 65536}

\* new Packet(parameters): the packet is kept in currentPacket and the
\* parameters in lastOp.arg
newPacket(parameters) ==
  /\ currentPacket' = Packet(parameters)
  /\ lastOp' = Op("Packet", parameters, FALSE)
  /\ UNCHANGED <<connected, robotState, cmdStack, socket, intervalSender,
                 timers, orphanIntervals, pendingConnects, lastWritten,
                 httpSent, enqueued, installed, staleTimers, disconnected>>

\* getBuffer() on the packet built: the bytes are kept in lastWritten
serialize ==
  /\ lastOp.op = "Packet"
  /\ lastWritten' = getBuffer(currentPacket)
  /\ lastOp' = Op("getBuffer", lastOp.arg, FALSE)
  /\ UNCHANGED <<connected, robotState, cmdStack, currentPacket, socket,
                 intervalSender, timers, orphanIntervals, pendingConnects,
                 httpSent, enqueued, installed, staleTimers, disconnected>>

\* one packet is built in a behaviour
NextPacket ==
  \/ /\ lastOp.op = "new"
     /\ \E w \in PowerArgs, a \in AngleArgs, r \in RotationArgs,
           st \in FlagArgs, mt \in FlagArgs, oo \in FlagArgs,
           x \in AccArgs, y \in AccArgs, s \in SliderArgs,
           d \in DurationArgs :
          newPacket([power |-> w, angle |-> a, rotation |-> r,
                     staticTilt |-> st, movingTilt |-> mt, onOff |-> oo,
                     accX |-> x, accY |-> y, slidersArray |-> s,
                     duration |-> Num(d)])
  \/ lastOp.op = "new" /\ \E s \in SliderArgs : newPacket([slidersArray |-> s])
  \/ /\ lastOp.op = "new"
     /\ \E w \in PowerArgs, d \in DurationArgs :
          newPacket([power |-> w, duration |-> Num(d)])
  \/ lastOp.op = "new" /\ newPacket(<<>>)
  \/ serialize

SpecPacket == Init /\ [][NextPacket]_vars

----------------------------------------------------------------------------
(* Properties *)

\* the neutral default packet
Neutral == Packet(<<>>)

SameCmd(a, b) == a.name = b.name /\ a.args = b.args

SameCmds(s, t) ==
  /\ Len(s) = Len(t)
  /\ \A i \in 1..Len(s) : SameCmd(s[i], t[i])

PushOps == {"goForward", "goBack", "turnLeft", "turnRight", "rest",
            "tiltForward", "tiltBack", "tiltLeft", "tiltRight",
            "sendCustomPacket"}

\* the step is a call that reached pushCmd; Pushed is its command
IsPushStep == Len(enqueued') = Len(enqueued) + 1
Pushed == enqueued'[Len(enqueued')]

\* the step is the callback of a duration timer
IsTimerStep == lastOp'.op = "timeout" /\ lastOp'.arg \in timers

\* C1: at most one command executes at a time: at most one duration timer is
\* pending, and while the timer of a command is pending that command is the
\* one installed last and its packet is still the current packet.
C1_AtMostOneCommandExecutes ==
  /\ Cardinality(timers) <= 1
  /\ \A t \in timers :
       /\ t = Len(installed)
       /\ currentPacket = CmdEnum(installed[t]).currentPacket

\* C2: a disconnect() called while a duration timer is pending completes
\* with the queue empty, robotState idle, the neutral packet current and the
\* neutral packet the last one written to the socket.
C2_DisconnectWhileRunningResets ==
  (lastOp.op = "disconnect" /\ timers # {}) =>
    /\ ~lastOp.threw
    /\ cmdStack = <<>>
    /\ robotState = "idle"
    /\ currentPacket = Neutral
    /\ lastWritten = getBuffer(Neutral)

\* C3: a duration timer that was pending when disconnect() was called never
\* fires afterwards.
C3_DisconnectCancelsTimer ==
  ~(lastOp.op = "timeout" /\ lastOp.arg \in staleTimers)

\* C4: a command pushed while robotState is idle is running when pushCmd
\* returns: robotState is running, the command has left the queue and
\* currentPacket is the packet translated from it.
C4_EnqueueWhileIdleAdvances ==
  [][(robotState = "idle" /\ IsPushStep) =>
       /\ robotState' = "running"
       /\ SameCmds(cmdStack', cmdStack)
       /\ Len(installed') = Len(installed) + 1
       /\ SameCmd(installed'[Len(installed')], Pushed)
       /\ currentPacket' = CmdEnum(Pushed).currentPacket]_vars

C4_Witness ==
  /\ lastOp.op \in PushOps
  /\ Len(enqueued) = 1
  /\ Len(installed) = 1
  /\ robotState = "running"
  /\ cmdStack = <<>>
  /\ currentPacket # Neutral

\* C5: a command pushed while robotState is running is only appended:
\* currentPacket, robotState and the pending timers are unchanged and the
\* queue is the old queue with the command at its tail; a command that waited
\* in the queue is installed by a timer callback only.
C5_EnqueueWhileRunningAppends ==
  [][/\ (robotState = "running" /\ IsPushStep) =>
          /\ UNCHANGED <<currentPacket, robotState, timers, installed>>
          /\ SameCmds(cmdStack', Append(cmdStack, Pushed))
     /\ (Len(installed') > Len(installed) /\ ~IsTimerStep) =>
          /\ cmdStack = <<>>
          /\ IsPushStep]_vars

C5_Witness ==
  /\ lastOp.op \in PushOps
  /\ robotState = "running"
  /\ timers # {}
  /\ Len(enqueued) = 2
  /\ Len(installed) = 1
  /\ Len(cmdStack) = 1
  /\ SameCmd(cmdStack[1], enqueued[2])
  /\ currentPacket = CmdEnum(enqueued[1]).currentPacket
  /\ currentPacket # CmdEnum(enqueued[2]).currentPacket

\* C6: a command whose duration is zero or negative arms no timer and is
\* complete in the step that installs it: while it is the command installed
\* last no timer of it is pending, the queue is empty and robotState is idle;
\* a rest(0) on a new Hexapod leaves currentPacket neutral, robotState idle
\* and no timer pending.
C6_NonPositiveDurationCompletesAtOnce ==
  LET n == Len(installed)
  IN  (n > 0 /\ CmdEnum(installed[n]).duration <= 0) =>
        /\ n \notin timers
        /\ cmdStack = <<>>
        /\ robotState = "idle"
        /\ (n = 1 /\ installed[1].name = "rest") =>
             (currentPacket = Neutral /\ timers = {})

\* C7: commands are taken in the order they were pushed, each once: the
\* commands installed are a prefix of the commands pushed and the queue holds
\* the rest, in order.
C7_FifoExactlyOnce ==
  /\ Len(installed) <= Len(enqueued)
  /\ SameCmds(installed, SubSeq(enqueued, 1, Len(installed)))
  /\ SameCmds(cmdStack, SubSeq(enqueued, Len(installed) + 1, Len(enqueued)))

C7_Witness ==
  /\ lastOp.op = "timeout"
  /\ Len(enqueued) = 3
  /\ Len(installed) = 2
  /\ Len(cmdStack) = 1
  /\ ~SameCmd(installed[2], cmdStack[1])
  /\ ~SameCmd(installed[1], installed[2])

\* C8: the callback of a duration timer, with a command waiting, takes the
\* head of the queue, installs its packet and leaves robotState running; with
\* the queue empty it installs the neutral packet and sets robotState idle.
C8_TimerExpiry ==
  [][IsTimerStep =>
       IF Len(cmdStack) > 0
       THEN /\ SameCmds(cmdStack', Tail(cmdStack))
            /\ Len(installed') = Len(installed) + 1
            /\ SameCmd(installed'[Len(installed')], cmdStack[1])
            /\ currentPacket' = CmdEnum(cmdStack[1]).currentPacket
            /\ robotState = "running"
            /\ robotState' = "running"
       ELSE /\ currentPacket' = Neutral
            /\ robotState' = "idle"
            /\ cmdStack' = <<>>
            /\ installed' = installed]_vars

C8_Witness ==
  /\ lastOp.op = "timeout"
  /\ Len(installed) = 2
  /\ robotState = "running"
  /\ currentPacket = CmdEnum(enqueued[2]).currentPacket
  /\ currentPacket # CmdEnum(enqueued[1]).currentPacket

\* the packets sent over HTTP that are not the neutral packet
NotNeutral(p) == p # Neutral
SentCommands == SelectSeq(httpSent, NotNeutral)

\* goForward(1) and turnLeft(90) were pushed on a new Hexapod and both have
\* run to the end
C9_SequenceDone ==
  /\ Len(enqueued) = 2
  /\ SameCmd(enqueued[1], Cmd("goForward", 1))
  /\ SameCmd(enqueued[2], Cmd("turnLeft", 90))
  /\ Len(installed) = 2
  /\ timers = {}

\* a duration field that is c cycles to the integer below
Cycles(packet, c) == Num(c) <= packet.duration /\ packet.duration < Num(c + 1)

\* C9, as stated: the sequence goForward(1), turnLeft(90) installs the packets
\* {power 100, duration 650} and {rotation 100, duration 162}, and ends idle
\* with the neutral packet.
C9_AsStated ==
  C9_SequenceDone =>
    /\ Len(SentCommands) = 2
    /\ SentCommands[1] = Packet([power |-> 100, duration |-> Num(650)])
    /\ SentCommands[2].rotation = 100
    /\ Cycles(SentCommands[2], 162)
    /\ robotState = "idle"
    /\ currentPacket = Neutral

\* C9, amended: the second packet is {rotation -100, duration 162.5}, all its
\* other fields at their defaults.
C9_ForwardThenLeft ==
  C9_SequenceDone =>
    /\ Len(SentCommands) = 2
    /\ SentCommands[1] = Packet([power |-> 100, duration |-> Num(650)])
    /\ 2 * SentCommands[2].duration = Num(325)
    /\ Cycles(SentCommands[2], 162)
    /\ SentCommands[2] =
         Packet([rotation |-> -100, duration |-> SentCommands[2].duration])
    /\ robotState = "idle"
    /\ currentPacket = Neutral
    /\ httpSent[Len(httpSent)] = Neutral

C9_Witness ==
  /\ C9_SequenceDone
  /\ lastOp.op = "timeout"
  /\ Len(httpSent) = 3

\* C10: goForward(d) and goBack(d) with d <= 0 push nothing and leave
\* robotState, currentPacket, the queue and the timers as they were; with
\* d > 0 they push one command.
C10_NonPositiveDistanceRejected ==
  [][lastOp'.op \in {"goForward", "goBack"} =>
       IF lastOp'.arg > 0
       THEN /\ IsPushStep
            /\ SameCmd(Pushed, Cmd(lastOp'.op, lastOp'.arg))
       ELSE UNCHANGED <<enqueued, cmdStack, robotState, currentPacket,
                        timers, installed, httpSent>>]_vars

C10_Witness ==
  /\ lastOp.op \in {"goForward", "goBack"}
  /\ lastOp.arg <= 0
  /\ Len(enqueued) = 1
  /\ robotState = "running"

\* the packet the table of commands gives for cmd, its duration field apart
TablePacket(cmd) ==
  CASE cmd.name = "goForward" -> [defaults EXCEPT !.power = 100]
    [] cmd.name = "goBack" -> [defaults EXCEPT !.power = 100, !.angle = 180]
    [] cmd.name = "turnLeft" -> [defaults EXCEPT !.rotation = -100]
    [] cmd.name = "turnRight" -> [defaults EXCEPT !.rotation = 100]
    [] cmd.name = "tiltForward" ->
         [defaults EXCEPT !.staticTilt = 1, !.accX = -30]
    [] cmd.name = "tiltBack" -> [defaults EXCEPT !.staticTilt = 1, !.accX = 30]
    [] cmd.name = "tiltLeft" ->
         [defaults EXCEPT !.staticTilt = 1, !.accY = -30]
    [] cmd.name = "tiltRight" -> [defaults EXCEPT !.staticTilt = 1, !.accY = 30]
    [] cmd.name = "rest" -> defaults
    [] cmd.name = "sendCustomPacket" -> cmd.args[1]

\* C11: a handler of CmdEnum that returns a positive duration has installed
\* the packet of the table of commands for its command (a custom packet as it
\* was given), every other field at its default, and the duration field of the
\* packet, in cycles, is 50 times the duration in seconds it returned.
C11_TranslationTable ==
  (lastOp.op = "CmdEnum" /\ lastOp.arg > 0) =>
    LET cmd == installed[1]
    IN  /\ currentPacket.duration = 50 * lastOp.arg
        /\ currentPacket =
             [TablePacket(cmd) EXCEPT !.duration = currentPacket.duration]
        /\ cmd.name = "sendCustomPacket" => currentPacket = cmd.args[1]

C11_Witness ==
  /\ lastOp.op = "CmdEnum"
  /\ lastOp.arg > 0
  /\ installed[1].name = "tiltBack"
  /\ currentPacket.accX = 30
  /\ currentPacket.duration = Num(100)

\* the step is the callback of a duration timer that finds the queue empty
IsCompletionStep == IsTimerStep /\ cmdStack = <<>>

\* the packets translated from the commands installed, then the neutral packet
SentByOneSequence ==
  [i \in 1..(Len(installed) + 1) |->
     IF i <= Len(installed)
     THEN CmdEnum(installed[i]).currentPacket
     ELSE Neutral]

\* C12: a step that installs the packet of a command sends that packet over
\* HTTP, once, a timer callback that finds the queue empty sends the neutral
\* packet, once, and no other step sends or changes currentPacket; when the
\* first sequence of n commands completes the packets sent are the n packets
\* installed, in order, and then the neutral packet: n + 1 sends.
C12_EachInstalledPacketSentOnce ==
  [][/\ Len(installed') = Len(installed) + 1 =>
          /\ currentPacket' = CmdEnum(installed'[Len(installed')]).currentPacket
          /\ httpSent' = Append(httpSent, currentPacket')
     /\ IsCompletionStep =>
          /\ currentPacket' = Neutral
          /\ httpSent' = Append(httpSent, Neutral)
     /\ (Len(installed') = Len(installed) /\ ~IsCompletionStep) =>
          UNCHANGED <<currentPacket, httpSent>>
     /\ (IsCompletionStep /\ Len(httpSent) = Len(installed)) =>
          /\ httpSent' = SentByOneSequence
          /\ Len(httpSent') = Len(enqueued) + 1]_vars

C12_Witness ==
  /\ lastOp.op = "timeout"
  /\ robotState = "idle"
  /\ Len(enqueued) = 3
  /\ Len(installed) = 3
  /\ Len(httpSent) = 4
  /\ httpSent[1] # httpSent[2]
  /\ httpSent[3] # Neutral
  /\ httpSent[4] = Neutral

\* the intervals started by connect() that are still running
ActiveStreamTimers == orphanIntervals + (IF intervalSender THEN 1 ELSE 0)

\* C13: at most one interval of connect() runs at any time, so a connect()
\* called while one runs starts no second one, and none runs when disconnect()
\* has returned.
C13_OneStreamTimer ==
  /\ ActiveStreamTimers <= 1
  /\ lastOp.op = "disconnect" => ActiveStreamTimers = 0

\* C14: when the callback of a duration timer has found the queue empty and
\* set robotState idle, no interval of connect() runs and the socket is no
\* longer open.
C14_StreamStopsAtCompletion ==
  (lastOp.op = "timeout" /\ robotState = "idle") =>
    /\ ActiveStreamTimers = 0
    /\ socket # "open"

\* a packet whose fields are all in their valid ranges
InRange(packet) ==
  /\ packet.power \in 0..100
  /\ packet.angle \in -180..180
  /\ packet.rotation \in -100..100
  /\ packet.staticTilt \in 0..1
  /\ packet.movingTilt \in 0..1
  /\ packet.onOff \in 0..1
  /\ packet.accX \in -40..40
  /\ packet.accY \in -40..40
  /\ Len(packet.slidersArray) = 9
  /\ \A i \in 1..9 : packet.slidersArray[i] \in 0..255
  /\ packet.duration % Scale = 0
  /\ packet.duration \div Scale \in 0..65535

\* a byte read as a signed byte
Signed(b) == IF b >= 128 THEN b - 256 ELSE b

\* the decoder of the robot's side: bytes[i] is the byte at offset i - 1
Decode(bytes) ==
  [power |-> bytes[4],
   angle |-> 2 * Signed(bytes[5]),
   rotation |-> Signed(bytes[6]),
   staticTilt |-> bytes[7],
   movingTilt |-> bytes[8],
   onOff |-> bytes[9],
   accX |-> Signed(bytes[10]),
   accY |-> Signed(bytes[11]),
   slidersArray |-> SubSeq(bytes, 12, 20),
   duration |-> Num(bytes[21] * 256 + bytes[22])]

\* C15: the buffer of a packet whose fields are in their valid ranges has 22
\* bytes, starts with 80, 75, 84, and decodes to the packet itself but for
\* angle, which comes back as angle/2 truncated toward zero, doubled.
C15_SerializeRoundTrip ==
  (lastOp.op = "getBuffer" /\ InRange(currentPacket)) =>
    /\ Len(lastWritten) = 22
    /\ \A i \in 1..22 : lastWritten[i] \in 0..255
    /\ SubSeq(lastWritten, 1, 3) = <<80, 75, 84>>
    /\ Decode(lastWritten) =
         [currentPacket EXCEPT !.angle = 2 * TruncDiv(currentPacket.angle, 2)]

C15_Witness ==
  /\ lastOp.op = "getBuffer"
  /\ InRange(currentPacket)
  /\ currentPacket.angle = -179
  /\ currentPacket.duration = Num(65535)
  /\ currentPacket.accX = -40
  /\ Decode(lastWritten).angle = -178
  /\ lastWritten[5] = 167
  /\ lastWritten[21] = 255

\* C16: a packet built with a slidersArray whose length is not 9 (0 too) has
\* the default slidersArray 50, 25, 0, 0, 0, 0, 0, 0, 0 and every other field
\* it was given as given; a slidersArray of length 9 is kept as given.
C16_SlidersArrayLength ==
  lastOp.op = "Packet" =>
    LET parameters == lastOp.arg
    IN  /\ \A p \in DOMAIN parameters \ {"slidersArray"} :
             currentPacket[p] = parameters[p]
        /\ "slidersArray" \in DOMAIN parameters =>
             currentPacket.slidersArray =
               IF Len(parameters.slidersArray) = 9
               THEN parameters.slidersArray
               ELSE <<50, 25, 0, 0, 0, 0, 0, 0, 0>>

C16_Witness ==
  /\ lastOp.op = "Packet"
  /\ "slidersArray" \in DOMAIN lastOp.arg
  /\ lastOp.arg.slidersArray = <<>>
  /\ lastOp.arg.power = 300
  /\ currentPacket.power = 300
  /\ currentPacket.slidersArray = <<50, 25, 0, 0, 0, 0, 0, 0, 0>>

\* C17: robotState is running only while a duration timer is pending.
C17_RunningHasTimer ==
  robotState = "running" => timers # {}

\* C18: every command pushed is installed at some later time, and in the end
\* the sequencer stays with robotState idle, the queue empty and the neutral
\* packet current.
C18_EveryCommandEventuallyRuns ==
  /\ \A i \in 1..MaxSeqPush :
       [](Len(enqueued) >= i => <>(Len(installed) >= i))
  /\ <>[](robotState = "idle" /\ cmdStack = <<>> /\ currentPacket = Neutral)

\* C19: while robotState is idle the queue is empty.
C19_IdleHasEmptyQueue ==
  robotState = "idle" => cmdStack = <<>>

C19_Witness ==
  /\ lastOp.op = "disconnect"
  /\ ~lastOp.threw
  /\ robotState = "idle"
  /\ cmdStack = <<>>
  /\ Len(enqueued) = 1
  /\ Len(installed) = 0

\* C20: while robotState is idle currentPacket is the neutral packet.
C20_IdleHasNeutralPacket ==
  robotState = "idle" => currentPacket = Neutral

C20_Witness ==
  /\ lastOp.op = "timeout"
  /\ robotState = "idle"
  /\ currentPacket = Neutral
  /\ Len(installed) = 1
  /\ CmdEnum(installed[1]).currentPacket # Neutral
  /\ socket = "open"

====
